---- MODULE Spec2Model ----
(***************************************************************************)
(* A model of the mutation-context protocol of frptools/core               *)
(* (src/mutation.ts): MutationContext values sharing one-element flag      *)
(* cells, the context algebra, and the batch lifecycle operations applied  *)
(* to persistent structures (the Widget/Component classes of               *)
(* tests/mutation.ts).                                                     *)
(*                                                                         *)
(* The heap is three growing sequences: flag cells (the [boolean] token    *)
(* arrays), MutationContext instances and persistent structures.  An       *)
(* index into a sequence is the identity of the object, so `===` of the    *)
(* source is equality of indices.                                          *)
(*                                                                         *)
(* Every function of the source is an operator from a heap to a result     *)
(* [h, ret, threw]: the heap after the call, the value returned and        *)
(* whether the call threw.  A behaviour starts from the structures a       *)
(* client has constructed and every step is one call of the API.           *)
(***************************************************************************)
EXTENDS Integers, Sequences, FiniteSets, TLC

VARIABLES
  tokens,    \* the flag cells: tokens[t] is element 0 of the t-th [boolean] array
  ctxs,      \* the MutationContext instances: [token, scope]
  objs       \* the persistent structures: ['@@mctx', component]

vars == <<tokens, ctxs, objs>>

\* ---- bounds of the model -------------------------------------------------
MaxInit == 2     \* structures constructed by the client before the calls
MaxObj == 3      \* structures allocated in one behaviour
MaxScope == 1    \* deepest nesting of modify on one owner context
MaxNest == 3     \* longest run of nested modify/commit calls tried from a state
MaxPairs == 1    \* modify/commit pairs issued by the mutate function of update

\* ---- program constants ---------------------------------------------------
SUBORDINATE == 0 - 1   \* the scope value of a subordinate context
FROZEN == 1            \* index of the shared frozen context
NoVal == 0             \* no object (undefined / void / absent property)

\* ---- the heap as a value -------------------------------------------------
H == [tokens |-> tokens, ctxs |-> ctxs, objs |-> objs]

MutationContext(token, scope) == [token |-> token, scope |-> scope]

Res(h, ret) == [h |-> h, ret |-> ret, threw |-> FALSE]

error(h) == [h |-> h, ret |-> NoVal, threw |-> TRUE]

\* ---- classification ------------------------------------------------------
getMutationContext(h, value) == h.objs[value].mctx

isMutableContext(h, mctx) == h.tokens[h.ctxs[mctx].token]

isMutable(h, value) == isMutableContext(h, getMutationContext(h, value))

isImmutable(h, value) == ~isMutable(h, value)

\* isPrimaryContext that takes every context for an owner
isPrimaryContext_any(h, mctx) == TRUE

isPrimaryContext(h, mctx) == h.ctxs[mctx].scope >= 0

isSubordinateContext(h, mctx) == h.ctxs[mctx].scope = SUBORDINATE

isRelatedContext(h, a, b) == h.ctxs[a].token = h.ctxs[b].token

isContextOwner(h, value) == isPrimaryContext(h, getMutationContext(h, value))

token(h, value) == h.ctxs[getMutationContext(h, value)].token

areContextsRelated(h, a, b) == token(h, a) = token(h, b)

\* ---- derivation ----------------------------------------------------------
\* new MutationContext(token, scope): a new context instance on the heap
newContext(h, tok, scope) ==
  Res([h EXCEPT !.ctxs = Append(@, MutationContext(tok, scope))], Len(h.ctxs) + 1)

\* mutable() with the scope of the new owner context started at 1
mutable_scope1(h) ==
  newContext([h EXCEPT !.tokens = Append(@, TRUE)], Len(h.tokens) + 1, 1)

\* mutable(): new MutationContext([true], 0)
mutable(h) ==
  newContext([h EXCEPT !.tokens = Append(@, TRUE)], Len(h.tokens) + 1, 0)

immutable(h) == Res(h, FROZEN)

\* asSubordinateContext that hands the context back whatever its scope
asSubordinateContext_same(h, mctx) == Res(h, mctx)

\* asSubordinateContext that allocates for a subordinate context too:
\* new MutationContext(mctx.token, -1)
asSubordinateContext_fresh(h, mctx) == newContext(h, h.ctxs[mctx].token, SUBORDINATE)

asSubordinateContext(h, mctx) ==
  IF h.ctxs[mctx].scope >= 0
    THEN newContext(h, h.ctxs[mctx].token, SUBORDINATE)
    ELSE Res(h, mctx)

getSubordinateContext(h, value) ==
  asSubordinateContext(h, getMutationContext(h, value))

\* A PreferredContext|undefined argument is a tagged value.
Undef == [kind |-> "undefined", val |-> NoVal]
Bool(b) == [kind |-> "boolean", val |-> IF b THEN 1 ELSE 0]
Ctx(c) == [kind |-> "context", val |-> c]
Obj(v) == [kind |-> "structure", val |-> v]

\* selectContext that gives a structure's own context for a structure:
\* getMutationContext(mutability)
selectContext_own(h, mutability) ==
  IF mutability.kind = "undefined" THEN Res(h, FROZEN)
  ELSE IF mutability.kind = "boolean"
    THEN (IF mutability.val = 1 THEN mutable(h) ELSE Res(h, FROZEN))
  ELSE IF mutability.kind = "context" THEN Res(h, mutability.val)
  ELSE Res(h, getMutationContext(h, mutability.val))

selectContext(h, mutability) ==
  IF mutability.kind = "undefined" THEN Res(h, FROZEN)
  ELSE IF mutability.kind = "boolean"
    THEN (IF mutability.val = 1 THEN mutable(h) ELSE Res(h, FROZEN))
  ELSE IF mutability.kind = "context" THEN Res(h, mutability.val)
  ELSE getSubordinateContext(h, mutability.val)

\* value['@@clone'](mctx) of Widget and Component: a new instance with the
\* same fields and the given context
atClone(h, value, mctx) ==
  Res([h EXCEPT !.objs = Append(@, [mctx |-> mctx,
                                     component |-> h.objs[value].component])],
      Len(h.objs) + 1)

clone(h, value, mutability) ==
  LET s == selectContext(h, mutability) IN atClone(s.h, value, s.ret)

\* ---- scope and flag writes -----------------------------------------------
\* close that gives the context a [false] of its own: mctx.token = [false]
close_own(h, mctx) ==
  [h EXCEPT !.tokens = Append(@, FALSE), !.ctxs[mctx].token = Len(h.tokens) + 1]

\* close that flips the flag: mctx.token[0] = !mctx.token[0]
close_toggle(h, mctx) ==
  [h EXCEPT !.tokens[h.ctxs[mctx].token] = ~h.tokens[h.ctxs[mctx].token]]

\* close that clears every flag cell
close_all(h, mctx) == [h EXCEPT !.tokens = [t \in DOMAIN @ |-> FALSE]]

close(h, mctx) == [h EXCEPT !.tokens[h.ctxs[mctx].token] = FALSE]

\* incScope that does not count
incScope_lost(h, mctx) == h

incScope(h, mctx) == [h EXCEPT !.ctxs[mctx].scope = @ + 1]

\* decScope that does not count
decScope_lost(h, mctx) == h

decScope(h, mctx) == [h EXCEPT !.ctxs[mctx].scope = @ - 1]

\* ---- batch lifecycle -----------------------------------------------------
\* modify that counts every mutable context, subordinate or not
modify_counts(h, value) ==
  LET mc == getMutationContext(h, value) IN
  IF isMutableContext(h, mc)
    THEN Res(incScope(h, mc), value)
    ELSE LET m == mutable(h) IN clone(m.h, value, Ctx(m.ret))

modify(h, value) ==
  LET mc == getMutationContext(h, value) IN
  IF isMutableContext(h, mc)
    THEN IF isSubordinateContext(h, mc)
           THEN Res(h, value)
           ELSE Res(incScope(h, mc), value)
    ELSE LET m == mutable(h) IN clone(m.h, value, Ctx(m.ret))

\* commit that closes one scope early: mc.scope <= 1 ? close(mc) : decScope(mc)
commit_early(h, value) ==
  LET mc == getMutationContext(h, value) IN
  IF isPrimaryContext(h, mc)
    THEN Res(IF h.ctxs[mc].scope <= 1 THEN close(h, mc) ELSE decScope(h, mc), value)
    ELSE Res(h, value)

\* commit without the isPrimaryContext test
commit_unchecked(h, value) ==
  LET mc == getMutationContext(h, value) IN
  Res(IF h.ctxs[mc].scope = 0 THEN close(h, mc) ELSE decScope(h, mc), value)

\* commit that closes only a context that is still mutable and counts down
\* otherwise: mc.scope === 0 && isMutableContext(mc) ? close(mc) : decScope(mc)
commit_countsfrozen(h, value) ==
  LET mc == getMutationContext(h, value) IN
  IF isPrimaryContext(h, mc)
    THEN Res(IF h.ctxs[mc].scope = 0 /\ isMutableContext(h, mc)
               THEN close(h, mc) ELSE decScope(h, mc), value)
    ELSE Res(h, value)

commit(h, value) ==
  LET mc == getMutationContext(h, value) IN
  IF isPrimaryContext(h, mc)
    THEN Res(IF h.ctxs[mc].scope = 0 THEN close(h, mc) ELSE decScope(h, mc), value)
    ELSE Res(h, value)

\* the context named by a (PersistentStructure|MutationContext) argument
argContext(h, context) ==
  IF context.kind = "context" THEN context.val
  ELSE getMutationContext(h, context.val)

\* modifyAsSubordinate without the isMutableContext test on the first argument
modifyAsSubordinate_anyowner(h, context, value) ==
  LET mctxChild == getMutationContext(h, value)
      mctxParent == argContext(h, context) IN
  IF isRelatedContext(h, mctxChild, mctxParent)
     /\ isSubordinateContext(h, mctxChild)
    THEN Res(h, value)
    ELSE LET s == asSubordinateContext(h, mctxParent) IN
           clone(s.h, value, Ctx(s.ret))

\* modifyAsSubordinate that clones also a value that is already a subordinate
\* member of the batch
modifyAsSubordinate_reclone(h, context, value) ==
  LET mctxParent == argContext(h, context) IN
  IF isMutableContext(h, mctxParent)
    THEN LET s == asSubordinateContext(h, mctxParent) IN
           clone(s.h, value, Ctx(s.ret))
    ELSE error(h)

\* modifyAsSubordinate that moves the value into the batch instead of cloning
\* it: value['@@mctx'] = asSubordinateContext(mctxParent)
modifyAsSubordinate_inplace(h, context, value) ==
  LET mctxChild == getMutationContext(h, value)
      mctxParent == argContext(h, context) IN
  IF isMutableContext(h, mctxParent)
    THEN IF isRelatedContext(h, mctxChild, mctxParent)
            /\ isSubordinateContext(h, mctxChild)
           THEN Res(h, value)
           ELSE LET s == asSubordinateContext(h, mctxParent) IN
                  Res([s.h EXCEPT !.objs[value].mctx = s.ret], value)
    ELSE error(h)

modifyAsSubordinate(h, context, value) ==
  LET mctxChild == getMutationContext(h, value)
      mctxParent == argContext(h, context) IN
  IF isMutableContext(h, mctxParent)
    THEN IF isRelatedContext(h, mctxChild, mctxParent)
            /\ isSubordinateContext(h, mctxChild)
           THEN Res(h, value)
           ELSE LET s == asSubordinateContext(h, mctxParent) IN
                  clone(s.h, value, Ctx(s.ret))
    ELSE error(h)

\* modifyAsEqual as its doc comment has it for an immutable first argument:
\* the value is returned as a context owner, modify(value)
modifyAsEqual_anyowner(h, context, value) ==
  LET mcChild == getMutationContext(h, value)
      mcParent == argContext(h, context) IN
  IF isMutableContext(h, mcParent)
    THEN IF isRelatedContext(h, mcChild, mcParent)
            /\ (isSubordinateContext(h, mcParent) \/ isPrimaryContext(h, mcChild))
           THEN Res(h, value)
           ELSE clone(h, value, Ctx(mcParent))
    ELSE modify(h, value)

\* modifyAsEqual that clones as modifyAsSubordinate does:
\* clone(value, asSubordinateContext(mcParent))
modifyAsEqual_subordinate(h, context, value) ==
  LET mcChild == getMutationContext(h, value)
      mcParent == argContext(h, context) IN
  IF isMutableContext(h, mcParent)
    THEN IF isRelatedContext(h, mcChild, mcParent)
            /\ (isSubordinateContext(h, mcParent) \/ isPrimaryContext(h, mcChild))
           THEN Res(h, value)
           ELSE LET s == asSubordinateContext(h, mcParent) IN
                  clone(s.h, value, Ctx(s.ret))
    ELSE error(h)

\* modifyAsEqual that returns a related value as it is only if it is of the
\* first argument's kind
modifyAsEqual_samekind(h, context, value) ==
  LET mcChild == getMutationContext(h, value)
      mcParent == argContext(h, context) IN
  IF isMutableContext(h, mcParent)
    THEN IF isRelatedContext(h, mcChild, mcParent)
            /\ (isSubordinateContext(h, mcParent) <=> isSubordinateContext(h, mcChild))
           THEN Res(h, value)
           ELSE clone(h, value, Ctx(mcParent))
    ELSE error(h)

\* modifyAsEqual that clones into an owner context of its own on the first
\* argument's flag cell: clone(value, new MutationContext(mcParent.token, 0))
modifyAsEqual_newowner(h, context, value) ==
  LET mcChild == getMutationContext(h, value)
      mcParent == argContext(h, context) IN
  IF isMutableContext(h, mcParent)
    THEN IF isRelatedContext(h, mcChild, mcParent)
            /\ (isSubordinateContext(h, mcParent) \/ isPrimaryContext(h, mcChild))
           THEN Res(h, value)
           ELSE LET s == newContext(h, h.ctxs[mcParent].token, 0) IN
                  clone(s.h, value, Ctx(s.ret))
    ELSE error(h)

\* modifyAsEqual that clones into a copy of the first argument's context:
\* clone(value, new MutationContext(mcParent.token, mcParent.scope))
modifyAsEqual_copy(h, context, value) ==
  LET mcChild == getMutationContext(h, value)
      mcParent == argContext(h, context) IN
  IF isMutableContext(h, mcParent)
    THEN IF isRelatedContext(h, mcChild, mcParent)
            /\ (isSubordinateContext(h, mcParent) \/ isPrimaryContext(h, mcChild))
           THEN Res(h, value)
           ELSE LET s == newContext(h, h.ctxs[mcParent].token, h.ctxs[mcParent].scope) IN
                  clone(s.h, value, Ctx(s.ret))
    ELSE error(h)

modifyAsEqual(h, context, value) ==
  LET mcChild == getMutationContext(h, value)
      mcParent == argContext(h, context) IN
  IF isMutableContext(h, mcParent)
    THEN IF isRelatedContext(h, mcChild, mcParent)
            /\ (isSubordinateContext(h, mcParent) \/ isPrimaryContext(h, mcChild))
           THEN Res(h, value)
           ELSE clone(h, value, Ctx(mcParent))
    ELSE error(h)

\* modifyProperty that clones the child without naming the parent: clone(child)
modifyProperty_noparent(h, parent) ==
  IF isImmutable(h, parent) THEN error(h)
  ELSE LET child == h.objs[parent].component IN
       IF isRelatedContext(h, getMutationContext(h, child),
                              getMutationContext(h, parent))
         THEN Res(h, child)
         ELSE LET c == clone(h, child, Undef) IN
              Res([c.h EXCEPT !.objs[parent].component = c.ret], c.ret)

\* modifyProperty that returns the clone without the write parent[name] = child
modifyProperty_noassign(h, parent) ==
  IF isImmutable(h, parent) THEN error(h)
  ELSE LET child == h.objs[parent].component IN
       IF isRelatedContext(h, getMutationContext(h, child),
                              getMutationContext(h, parent))
         THEN Res(h, child)
         ELSE clone(h, child, Obj(parent))

\* modifyProperty without the isImmutable(parent) test
modifyProperty_unguarded(h, parent) ==
  LET child == h.objs[parent].component IN
  IF isRelatedContext(h, getMutationContext(h, child),
                         getMutationContext(h, parent))
    THEN Res(h, child)
    ELSE LET c == clone(h, child, Obj(parent)) IN
         Res([c.h EXCEPT !.objs[parent].component = c.ret], c.ret)

\* modifyProperty that compares the context instances instead of their flag
\* cells: getMutationContext(child) === getMutationContext(parent)
modifyProperty_sameinstance(h, parent) ==
  IF isImmutable(h, parent) THEN error(h)
  ELSE LET child == h.objs[parent].component IN
       IF getMutationContext(h, child) = getMutationContext(h, parent)
         THEN Res(h, child)
         ELSE LET c == clone(h, child, Obj(parent)) IN
              Res([c.h EXCEPT !.objs[parent].component = c.ret], c.ret)

\* modifyProperty(parent, 'component')
modifyProperty(h, parent) ==
  IF isImmutable(h, parent) THEN error(h)
  ELSE LET child == h.objs[parent].component IN
       IF isRelatedContext(h, getMutationContext(h, child),
                              getMutationContext(h, parent))
         THEN Res(h, child)
         ELSE LET c == clone(h, child, Obj(parent)) IN
              Res([c.h EXCEPT !.objs[parent].component = c.ret], c.ret)

withMutability(h, mutability, value) ==
  IF mutability.kind = "undefined" THEN atClone(h, value, FROZEN)
  ELSE IF mutability.kind = "boolean"
    THEN IF (mutability.val = 1) = isMutable(h, value) THEN Res(h, value)
         ELSE IF mutability.val = 1
                THEN LET m == mutable(h) IN atClone(m.h, value, m.ret)
                ELSE atClone(h, value, FROZEN)
  ELSE IF mutability.kind = "context"
    THEN IF isRelatedContext(h, mutability.val, getMutationContext(h, value))
           THEN Res(h, value)
           ELSE atClone(h, value, mutability.val)
  ELSE IF areContextsRelated(h, mutability.val, value) THEN Res(h, value)
       ELSE LET s == getSubordinateContext(h, mutability.val) IN
            atClone(s.h, value, s.ret)

\* commitContext without the isPrimaryContext test
commitContext_unchecked(h, mctx) == Res(close(h, mctx), NoVal)

\* commitContext that closes only outside every nested modify, as commit does
commitContext_atzero(h, mctx) ==
  IF isPrimaryContext(h, mctx) /\ h.ctxs[mctx].scope = 0
    THEN Res(close(h, mctx), NoVal) ELSE Res(h, NoVal)

commitContext(h, mctx) ==
  IF isPrimaryContext(h, mctx) THEN Res(close(h, mctx), NoVal) ELSE Res(h, NoVal)

\* a mutate function that issues k balanced modify/commit pairs on its argument
RECURSIVE mutate(_, _, _)
mutate(h, value, k) ==
  IF k = 0 THEN h
  ELSE LET m == modify(h, value)
           n == mutate(m.h, m.ret, k - 1) IN
       commit(n, m.ret).h

\* update that returns without the closing commit
update_uncommitted(h, k, value) ==
  LET m == modify(h, value)
      n == mutate(m.h, m.ret, k) IN
  Res(n, m.ret)

\* update(mutate, value)
update(h, k, value) ==
  LET m == modify(h, value)
      n == mutate(m.h, m.ret, k) IN
  commit(n, m.ret)

\* ---- the state machine ---------------------------------------------------
Objs == 1..Len(objs)
Ctxs == 1..Len(ctxs)
Tokens == 1..Len(tokens)

InBounds(h) ==
  /\ Len(h.objs) <= MaxObj
  /\ \A c \in 1..Len(h.ctxs) : h.ctxs[c].scope <= MaxScope

SetHeap(h) ==
  /\ InBounds(h)
  /\ tokens' = h.tokens
  /\ ctxs' = h.ctxs
  /\ objs' = h.objs

\* module initialization with the frozen singleton made an owner context:
\* FROZEN = new MutationContext([false], 0)
H0_owner == [tokens |-> <<FALSE>>, ctxs |-> <<MutationContext(1, 0)>>, objs |-> <<>>]

\* module initialization: FROZEN = new MutationContext([false], -1)
H0 == [tokens |-> <<FALSE>>, ctxs |-> <<MutationContext(1, SUBORDINATE)>>, objs |-> <<>>]

\* new Widget(name, component, mctx) / new Component(foo, bar, mctx) with
\* mctx one of immutable(), mutable(), asSubordinateContext(c)
construct(h, how, c, child) ==
  LET s == IF how = "immutable" THEN immutable(h)
           ELSE IF how = "mutable" THEN mutable(h)
           ELSE asSubordinateContext(h, c)
  IN [s.h EXCEPT !.objs = Append(@, [mctx |-> s.ret, component |-> child])]

\* the heaps one more construction makes of h; a Widget holds a Component,
\* a Component holds no structure
Constructions(h) ==
  {construct(h, x[1], x[2], x[3]) :
     x \in {y \in {"immutable", "mutable", "subordinate"}
                    \X (1..Len(h.ctxs)) \X (0..Len(h.objs)) :
              /\ y[1] # "subordinate" => y[2] = FROZEN
              /\ y[3] # NoVal => h.objs[y[3]].component = NoVal}}

\* the heaps that at most n constructions make after module initialization
RECURSIVE Built(_)
Built(n) ==
  IF n = 0 THEN {H0}
  ELSE LET P == Built(n - 1) IN P \cup UNION {Constructions(h) : h \in P}

\* the structures that the client has constructed (the setup of a test)
Init ==
  \E h \in Built(MaxInit) :
    /\ tokens = h.tokens
    /\ ctxs = h.ctxs
    /\ objs = h.objs

Modify(v) == SetHeap(modify(H, v).h)

Commit(v) == SetHeap(commit(H, v).h)

CommitContext(c) == SetHeap(commitContext(H, c).h)

ModifyAsSubordinate(context, v) == SetHeap(modifyAsSubordinate(H, context, v).h)

ModifyAsEqual(context, v) == SetHeap(modifyAsEqual(H, context, v).h)

ModifyProperty(parent) ==
  /\ objs[parent].component # NoVal
  /\ SetHeap(modifyProperty(H, parent).h)

WithMutability(mutability, v) == SetHeap(withMutability(H, mutability, v).h)

Update(k, v) == SetHeap(update(H, k, v).h)

Preferences ==
  {Undef, Bool(TRUE), Bool(FALSE)} \cup {Ctx(c) : c \in Ctxs} \cup {Obj(v) : v \in Objs}

Contexts == {Ctx(c) : c \in Ctxs} \cup {Obj(v) : v \in Objs}

Next ==
  \/ \E v \in Objs : Modify(v)
  \/ \E v \in Objs : Commit(v)
  \/ \E c \in Ctxs : CommitContext(c)
  \/ \E context \in Contexts, v \in Objs : ModifyAsSubordinate(context, v)
  \/ \E context \in Contexts, v \in Objs : ModifyAsEqual(context, v)
  \/ \E parent \in Objs : ModifyProperty(parent)
  \/ \E mutability \in Preferences, v \in Objs : WithMutability(mutability, v)
  \/ \E k \in 0..MaxPairs, v \in Objs : Update(k, v)

Spec == Init /\ [][Next]_vars

TypeOK ==
  /\ \A c \in Ctxs : ctxs[c].token \in Tokens /\ ctxs[c].scope \in SUBORDINATE..MaxScope
  /\ \A o \in Objs : objs[o].mctx \in Ctxs /\ objs[o].component \in {NoVal} \cup Objs

\* ---- the calls a client can make in a state ---------------------------------
\* every call of the lifecycle API with arguments taken from the heap h
Calls(h) ==
  LET O == 1..Len(h.objs)
      C == 1..Len(h.ctxs)
      CX == {Ctx(c) : c \in C} \cup {Obj(v) : v \in O}
      PR == {Undef, Bool(TRUE), Bool(FALSE)} \cup CX IN
  {[op |-> op, arg |-> Undef, val |-> v, k |-> 0] : op \in {"modify", "commit"}, v \in O}
  \cup {[op |-> "commitContext", arg |-> Ctx(c), val |-> NoVal, k |-> 0] : c \in C}
  \cup {[op |-> op, arg |-> x, val |-> v, k |-> 0] :
          op \in {"modifyAsSubordinate", "modifyAsEqual"}, x \in CX, v \in O}
  \cup {[op |-> "modifyProperty", arg |-> Obj(p), val |-> NoVal, k |-> 0] :
          p \in {q \in O : h.objs[q].component # NoVal}}
  \cup {[op |-> "withMutability", arg |-> x, val |-> v, k |-> 0] : x \in PR, v \in O}
  \cup {[op |-> "update", arg |-> Undef, val |-> v, k |-> k] : k \in 0..MaxPairs, v \in O}

\* the result of a call
Do(h, call) ==
  CASE call.op = "modify" -> modify(h, call.val)
    [] call.op = "commit" -> commit(h, call.val)
    [] call.op = "commitContext" -> commitContext(h, call.arg.val)
    [] call.op = "modifyAsSubordinate" -> modifyAsSubordinate(h, call.arg, call.val)
    [] call.op = "modifyAsEqual" -> modifyAsEqual(h, call.arg, call.val)
    [] call.op = "modifyProperty" -> modifyProperty(h, call.arg.val)
    [] call.op = "withMutability" -> withMutability(h, call.arg, call.val)
    [] call.op = "update" -> update(h, call.k, call.val)

scopeOf(h, value) == h.ctxs[getMutationContext(h, value)].scope

\* the structures and contexts of h are in h2 as they were
SameObjs(h, h2) == SubSeq(h2.objs, 1, Len(h.objs)) = h.objs
SameCtxs(h, h2) == SubSeq(h2.ctxs, 1, Len(h.ctxs)) = h.ctxs
SameTokens(h, h2) == SubSeq(h2.tokens, 1, Len(h.tokens)) = h.tokens

\* ---- C1 ------------------------------------------------------------------
\* C1: for every structure v whose context is immutable, modify(v) returns a
\* new instance distinct from v whose context is a new mutable owner context
\* at scope 0 on a new flag cell, and v is left immutable with its context
\* (and every other structure, context and flag) unchanged.
C1_ModifyOfImmutableClones ==
  \A v \in Objs : isImmutable(H, v) =>
    LET r == modify(H, v)
        mc == getMutationContext(r.h, r.ret) IN
    /\ ~r.threw
    /\ r.ret \notin Objs /\ r.ret = Len(r.h.objs)
    /\ mc \notin Ctxs /\ r.h.ctxs[mc].token \notin Tokens
    /\ isMutableContext(r.h, mc)
    /\ isPrimaryContext(r.h, mc) /\ r.h.ctxs[mc].scope = 0
    /\ r.h.objs[r.ret].component = objs[v].component
    /\ isImmutable(r.h, v)
    /\ SameObjs(H, r.h) /\ SameCtxs(H, r.h) /\ SameTokens(H, r.h)

\* an immutable structure and a structure made after the constructed ones,
\* with the same fields, that alone holds a mutable owner context at scope 0:
\* the clone that modify returns
C1_Witness ==
  \E v \in Objs, y \in Objs :
    /\ v < y /\ y > MaxInit
    /\ isImmutable(H, v) /\ getMutationContext(H, v) = FROZEN
    /\ objs[y].component = objs[v].component
    /\ isMutable(H, y) /\ isContextOwner(H, y) /\ scopeOf(H, y) = 0
    /\ \A o \in Objs \ {y} : ~areContextsRelated(H, o, y)

\* ---- C2 ------------------------------------------------------------------
ModifyCalls(h) ==
  {c \in Calls(h) :
     c.op \in {"modify", "modifyAsSubordinate", "modifyAsEqual", "modifyProperty"}}

\* C2: in every reachable state, every value returned by a call of modify,
\* modifyAsSubordinate, modifyAsEqual or modifyProperty that does not throw
\* is mutable when the call returns.
C2_ModifyReturnsMutable ==
  \A c \in ModifyCalls(H) :
    LET r == Do(H, c) IN
    ~r.threw => r.ret \in 1..Len(r.h.objs) /\ isMutable(r.h, r.ret)

\* a mutable Widget holds a clone, a mutable subordinate Component of its
\* own batch, while the immutable Component exists: the state that
\* modifyProperty leaves
C2_Witness ==
  \E p \in Objs, o \in Objs :
    /\ objs[p].component > MaxInit /\ objs[p].component # o
    /\ isMutable(H, p) /\ isMutable(H, objs[p].component)
    /\ areContextsRelated(H, p, objs[p].component)
    /\ isSubordinateContext(H, getMutationContext(H, objs[p].component))
    /\ isImmutable(H, o) /\ objs[o].component = NoVal

\* ---- C3 ------------------------------------------------------------------
\* C3: for every structure y whose context is a mutable owner context,
\* modify(y) returns y itself without cloning, adds exactly one to the scope
\* of y's context and to nothing else, and leaves the flag cell true.
C3_ModifyOfOwnerNests ==
  \A y \in Objs : (isMutable(H, y) /\ isContextOwner(H, y)) =>
    LET r == modify(H, y)
        mc == getMutationContext(H, y) IN
    /\ ~r.threw /\ r.ret = y
    /\ r.h.objs = objs
    /\ r.h.tokens = tokens /\ isMutable(r.h, y)
    /\ r.h.ctxs = [ctxs EXCEPT ![mc].scope = ctxs[mc].scope + 1]

\* a mutable owner inside a nested modify
C3_Witness ==
  \E y \in Objs : isMutable(H, y) /\ isContextOwner(H, y) /\ scopeOf(H, y) >= 1

\* ---- C4 ------------------------------------------------------------------
\* Every sequence of at most n further modify(y) and commit(y) calls, from a
\* heap h in which y is mutable and d is the number of commits so far minus
\* the number of further modifies so far: each call returns y, a modify
\* leaves y mutable, and a commit leaves y mutable exactly if the commits
\* still do not exceed the modifies.  The sequence is followed up to the
\* commit that freezes y.
RECURSIVE NestedScopes(_, _, _, _)
NestedScopes(h, y, d, n) ==
  \/ n = 0
  \/ /\ LET m == modify(h, y) IN
        /\ m.ret = y /\ isMutable(m.h, y)
        /\ NestedScopes(m.h, y, d - 1, n - 1)
     /\ LET c == commit(h, y) IN
        /\ c.ret = y
        /\ isMutable(c.h, y) <=> (d + 1 <= 0)
        /\ isMutable(c.h, y) => NestedScopes(c.h, y, d + 1, n - 1)

\* C4: let y = modify(x) for an immutable x; over every sequence of further
\* modify(y) and commit(y) calls y stays mutable as long as the commits do
\* not exceed the further modifies and is frozen by the first commit that
\* exceeds them (k nested modifies need k+1 commits); every commit returns y.
C4_FrozenWhenAllScopesExited ==
  \A x \in Objs : isImmutable(H, x) =>
    LET r == modify(H, x) IN
    /\ isMutable(r.h, r.ret)
    /\ NestedScopes(r.h, r.ret, 0, MaxNest + 2)

\* one batch is inside a nested modify while another one, next to the
\* immutable structure it was cloned from, has been frozen by its owner's
\* commit at scope 0
C4_Witness ==
  \E y \in Objs, z \in Objs, x \in Objs :
    /\ isMutable(H, y) /\ isContextOwner(H, y) /\ scopeOf(H, y) >= 1
    /\ getMutationContext(H, x) = FROZEN
    /\ isImmutable(H, z) /\ isContextOwner(H, z) /\ scopeOf(H, z) = 0

\* ---- C5 ------------------------------------------------------------------
\* op(y) called n times in a row: the heap reached, and ok if every call
\* returned y
RECURSIVE Times(_, _, _, _)
Times(h, y, op, n) ==
  IF n = 0 THEN [h |-> h, ok |-> TRUE]
  ELSE LET r == IF op = "modify" THEN modify(h, y) ELSE commit(h, y)
           t == Times(r.h, y, op, n - 1) IN
       [h |-> t.h, ok |-> (r.ret = y /\ ~r.threw /\ t.ok)]

\* C5: for a structure whose context is a mutable owner at scope s, n calls
\* of modify followed by n calls of commit return the same instance each
\* time, reach scope s + n in between and end in the heap they started from:
\* still mutable, scope s.
C5_BalancedModifyCommit ==
  \A y \in Objs : (isMutable(H, y) /\ isContextOwner(H, y)) =>
    \A n \in 0..MaxNest :
      LET up == Times(H, y, "modify", n)
          down == Times(up.h, y, "commit", n) IN
      /\ up.ok /\ down.ok
      /\ scopeOf(up.h, y) = scopeOf(H, y) + n /\ isMutable(up.h, y)
      /\ isMutable(down.h, y) /\ scopeOf(down.h, y) = scopeOf(H, y)
      /\ down.h = H

\* a mutable owner at scope 0 and a mutable owner inside a nested modify
C5_Witness ==
  \E y \in Objs, z \in Objs :
    /\ isMutable(H, y) /\ isContextOwner(H, y) /\ scopeOf(H, y) = 0
    /\ isMutable(H, z) /\ isContextOwner(H, z) /\ scopeOf(H, z) = MaxScope

\* ---- C6 ------------------------------------------------------------------
\* the calls that return a value as a member of the batch of y
JoinCalls(h, y) ==
  {c \in Calls(h) :
     /\ c.op \in {"modifyAsSubordinate", "modifyAsEqual", "modifyProperty"}
     /\ h.ctxs[argContext(h, c.arg)].token = token(h, y)}

\* C6: structures whose contexts share a flag cell have the same isMutable
\* value, owner or subordinate; and when an owner y at scope 0 commits, that
\* one call makes y, every structure related to y, and every structure that
\* a join call had just returned as a member of y's batch immutable.
C6_RelatedFreezeTogether ==
  /\ \A a \in Objs, b \in Objs :
       areContextsRelated(H, a, b) => (isMutable(H, a) <=> isMutable(H, b))
  /\ \A y \in Objs : (isMutable(H, y) /\ isContextOwner(H, y) /\ scopeOf(H, y) = 0) =>
       /\ LET r == commit(H, y) IN
          \A o \in Objs : areContextsRelated(H, o, y) => isImmutable(r.h, o)
       /\ \A c \in JoinCalls(H, y) :
            LET j == Do(H, c)
                r == commit(j.h, y) IN
            /\ ~j.threw
            /\ isMutable(j.h, j.ret) /\ isMutable(j.h, y)
            /\ isImmutable(r.h, j.ret) /\ isImmutable(r.h, y)
            /\ \A o \in Objs : areContextsRelated(H, o, y) => isImmutable(r.h, o)

\* a committed batch: its owner and a subordinate member are both immutable
C6_Witness ==
  \E a \in Objs, b \in Objs :
    /\ isContextOwner(H, a) /\ isImmutable(H, a) /\ scopeOf(H, a) = 0
    /\ isSubordinateContext(H, getMutationContext(H, b))
    /\ getMutationContext(H, b) # FROZEN
    /\ areContextsRelated(H, a, b) /\ isImmutable(H, b)

\* ---- C7 ------------------------------------------------------------------
\* C7: commit on a structure whose context is subordinate, called any number
\* of times, returns the same instance and changes nothing: no flag, no
\* scope, no structure.
C7_CommitOfSubordinateIsNoOp ==
  \A v \in Objs : isSubordinateContext(H, getMutationContext(H, v)) =>
    \A n \in 1..MaxNest :
      LET t == Times(H, v, "commit", n) IN
      t.ok /\ t.h = H /\ (isMutable(t.h, v) <=> isMutable(H, v))

\* a clone that a join call made, still a mutable subordinate, next to the
\* owner of its batch at scope 0
C7_Witness ==
  \E a \in Objs, b \in Objs :
    /\ b > MaxInit
    /\ isContextOwner(H, a) /\ isMutable(H, a) /\ scopeOf(H, a) = 0
    /\ isSubordinateContext(H, getMutationContext(H, b))
    /\ areContextsRelated(H, a, b) /\ isMutable(H, b)

\* ---- C8 ------------------------------------------------------------------
\* C8: modify on a structure whose context is a mutable subordinate returns
\* the same instance and changes nothing, so neither it nor a modify/commit
\* pair through the subordinate moves the owner's scope or the flag.
C8_ModifyOfSubordinateNotCounted ==
  \A v \in Objs :
    (isMutable(H, v) /\ isSubordinateContext(H, getMutationContext(H, v))) =>
      LET m == modify(H, v)
          c == commit(m.h, m.ret) IN
      /\ ~m.threw /\ m.ret = v /\ m.h = H
      /\ c.ret = v /\ c.h = H

\* a mutable subordinate of a batch whose owner is inside a nested modify
C8_Witness ==
  \E a \in Objs, b \in Objs :
    /\ isContextOwner(H, a) /\ isMutable(H, a) /\ scopeOf(H, a) >= 1
    /\ isSubordinateContext(H, getMutationContext(H, b))
    /\ areContextsRelated(H, a, b) /\ isMutable(H, b)

\* ---- C9 ------------------------------------------------------------------
\* a step that writes no flag, no structure and no token reference (it may
\* write scopes)
OnlyScopesWritten ==
  /\ tokens' = tokens
  /\ objs' = objs
  /\ \A c \in Ctxs : ctxs'[c].token = ctxs[c].token

\* C9: in every step a flag cell that is false stays false, so a structure
\* that is immutable stays immutable and keeps its context; every structure
\* that is mutable after a step and was not mutable before it is a new
\* instance (a clone), on a flag cell that was not false before the step.
\* (A step that writes only scopes satisfies all of it; it is set apart to
\* keep the evaluation short.)
C9_FrozenStaysFrozen ==
  [][ \/ OnlyScopesWritten
      \/ /\ \A t \in Tokens : ~tokens[t] => ~tokens'[t]
         /\ \A o \in Objs : isImmutable(H, o) =>
              /\ isImmutable(H', o)
              /\ getMutationContext(H', o) = getMutationContext(H, o)
         /\ \A o \in 1..Len(objs') : isMutable(H', o) =>
              /\ o \in Objs => isMutable(H, o)
              /\ token(H', o) \in Tokens => tokens[token(H', o)]
    ]_vars

\* a batch that was committed, and a later clone of the same structure that
\* is mutable on another flag cell
C9_Witness ==
  \E y \in Objs, z \in Objs :
    /\ y < z /\ z > MaxInit
    /\ isContextOwner(H, y) /\ isImmutable(H, y)
    /\ objs[z].component = objs[y].component
    /\ isContextOwner(H, z) /\ isMutable(H, z)
    /\ token(H, z) > token(H, y)

\* ---- C10 -----------------------------------------------------------------
\* the context through which a commit, update or commitContext call acts
Through(h, c) ==
  IF c.op = "commitContext" THEN c.arg.val ELSE getMutationContext(h, c.val)

\* the closing commit of update(mutate, value) acts on a mutable clone only
\* at scope 0
UpdateClosesAtZero(h, c) ==
  LET m == modify(h, c.val)
      n == mutate(m.h, m.ret, c.k)
      r == commit(n, m.ret) IN
  /\ \A t \in 1..Len(n.tokens) : ~n.tokens[t] => ~r.h.tokens[t]
  /\ (isMutable(n, m.ret) /\ isImmutable(r.h, m.ret)) =>
       isContextOwner(n, m.ret) /\ scopeOf(n, m.ret) = 0

\* C10 as claimed: over every call of the API, a flag cell changes only from
\* true to false and only in a call made through that cell's owner context
\* while the owner's scope is 0.
C10_Original ==
  \A c \in Calls(H) :
    LET r == Do(H, c) IN
    /\ c.op = "update" => UpdateClosesAtZero(H, c)
    /\ \/ SameTokens(H, r.h)
       \/ \A t \in Tokens : tokens[t] # r.h.tokens[t] =>
            /\ tokens[t] /\ ~r.h.tokens[t]
            /\ c.op \in {"commit", "update", "commitContext"}
            /\ ctxs[Through(H, c)].token = t
            /\ isPrimaryContext(H, Through(H, c))
            /\ ctxs[Through(H, c)].scope = 0

\* C10 as amended: over every call of the API, a flag cell changes only from
\* true to false and only in a call made through that cell's owner context:
\* a commit (or the closing commit of update) while the owner's scope is 0,
\* or a commitContext of the owner context, at whatever scope it has.
C10_FlagWrittenOnlyByOwner ==
  \A c \in Calls(H) :
    LET r == Do(H, c) IN
    /\ c.op = "update" => UpdateClosesAtZero(H, c)
    /\ \/ SameTokens(H, r.h)
       \/ \A t \in Tokens : tokens[t] # r.h.tokens[t] =>
            /\ tokens[t] /\ ~r.h.tokens[t]
            /\ c.op \in {"commit", "update", "commitContext"}
            /\ ctxs[Through(H, c)].token = t
            /\ isPrimaryContext(H, Through(H, c))
            /\ c.op # "commitContext" => ctxs[Through(H, c)].scope = 0

\* an owner context that was frozen inside a nested modify, which only
\* commitContext does
C10_Witness ==
  \E c \in Ctxs : isPrimaryContext(H, c) /\ ctxs[c].scope >= 1 /\ ~isMutableContext(H, c)

\* ---- C11 -----------------------------------------------------------------
\* C11: for every first argument (context or structure) whose context is not
\* mutable and every value, modifyAsSubordinate throws, and the heap after
\* the call is the heap before it: no clone, no new context, no flag or
\* scope written.
C11_JoinFrozenOwnerThrows ==
  \A x \in Contexts, v \in Objs :
    ~isMutableContext(H, argContext(H, x)) =>
      LET r == modifyAsSubordinate(H, x, v) IN
      r.threw /\ r.ret = NoVal /\ r.h = H

\* a batch that its owner has committed, with a subordinate member, next to
\* a structure that is mutable in another batch: a frozen first argument
\* and values of the three kinds
C11_Witness ==
  \E a \in Objs, b \in Objs, c \in Objs :
    /\ isContextOwner(H, a) /\ isImmutable(H, a)
    /\ isSubordinateContext(H, getMutationContext(H, b))
    /\ getMutationContext(H, b) # FROZEN
    /\ areContextsRelated(H, a, b)
    /\ isMutable(H, c) /\ ~areContextsRelated(H, a, c)

\* ---- C12 -----------------------------------------------------------------
\* C12: for a mutable first argument x, a value v whose context is
\* subordinate and related to x's flag cell is returned as it is, the heap
\* (and so v's context instance) unchanged; and for every value v,
\* modifyAsSubordinate(x, modifyAsSubordinate(x, v)) returns the result of
\* the inner call and changes nothing after it.
C12_JoinIsIdempotent ==
  \A x \in Contexts, v \in Objs :
    isMutableContext(H, argContext(H, x)) =>
      LET r == modifyAsSubordinate(H, x, v)
          r2 == modifyAsSubordinate(r.h, x, r.ret) IN
      /\ ~r.threw /\ ~r2.threw
      /\ (/\ isRelatedContext(H, getMutationContext(H, v), argContext(H, x))
          /\ isSubordinateContext(H, getMutationContext(H, v)))
           => r.ret = v /\ r.h = H
      /\ r2.ret = r.ret /\ r2.h = r.h
      /\ getMutationContext(r2.h, r2.ret) = getMutationContext(r.h, r.ret)

\* a mutable owner and two mutable subordinate members of its batch, one of
\* them a clone made by a join: another join of either returns it as it is
C12_Witness ==
  \E a \in Objs, b \in Objs, c \in Objs :
    /\ b < c /\ c > MaxInit
    /\ isContextOwner(H, a) /\ isMutable(H, a)
    /\ isSubordinateContext(H, getMutationContext(H, b))
    /\ isSubordinateContext(H, getMutationContext(H, c))
    /\ areContextsRelated(H, a, b) /\ areContextsRelated(H, a, c)

\* ---- C13 -----------------------------------------------------------------
\* C13: for a mutable first argument x and every value v (the owner of x's
\* batch included), the value that modifyAsSubordinate(x, v) returns has a
\* subordinate context on x's flag cell, and any number of commit calls on
\* it returns it and changes nothing: the batch and the returned value stay
\* mutable.
C13_JoinedIsSubordinate ==
  \A x \in Contexts, v \in Objs :
    isMutableContext(H, argContext(H, x)) =>
      LET r == modifyAsSubordinate(H, x, v)
          mc == getMutationContext(r.h, r.ret) IN
      /\ ~r.threw
      /\ isSubordinateContext(r.h, mc) /\ ~isContextOwner(r.h, r.ret)
      /\ isRelatedContext(r.h, mc, argContext(H, x))
      /\ \A n \in 1..MaxNest :
           LET t == Times(r.h, r.ret, "commit", n) IN
           /\ t.ok /\ t.h = r.h
           /\ isMutable(t.h, r.ret) /\ isMutableContext(t.h, argContext(H, x))

\* the mutable owner of a batch, a Widget, and a later clone of it (it holds
\* the same Component) that is a subordinate member of the same batch: the
\* owner was joined to its own batch
C13_Witness ==
  \E a \in Objs, b \in Objs :
    /\ a < b /\ b > MaxInit
    /\ isContextOwner(H, a) /\ isMutable(H, a)
    /\ objs[a].component # NoVal
    /\ objs[b].component = objs[a].component
    /\ isSubordinateContext(H, getMutationContext(H, b))
    /\ areContextsRelated(H, a, b)
    /\ \A o \in Objs \ {a, b} : ~areContextsRelated(H, o, a)

\* ---- C14 -----------------------------------------------------------------
\* C14: for a mutable first argument x and a value v that is mutable on
\* another flag cell, modifyAsSubordinate(x, v) returns a new instance on
\* x's flag cell and writes nothing that existed: v keeps its context, its
\* flag and its scope, stays mutable and stays unrelated to x and to the
\* returned instance.
C14_JoinOfOtherBatchClones ==
  \A x \in Contexts, v \in Objs :
    (/\ isMutableContext(H, argContext(H, x))
     /\ isMutable(H, v)
     /\ ~isRelatedContext(H, getMutationContext(H, v), argContext(H, x))) =>
      LET r == modifyAsSubordinate(H, x, v) IN
      /\ ~r.threw
      /\ r.ret \notin Objs /\ r.ret = Len(r.h.objs)
      /\ isMutable(r.h, r.ret)
      /\ isRelatedContext(r.h, getMutationContext(r.h, r.ret), argContext(H, x))
      /\ r.h.objs[r.ret].component = objs[v].component
      /\ SameObjs(H, r.h) /\ SameCtxs(H, r.h) /\ r.h.tokens = tokens
      /\ getMutationContext(r.h, v) = getMutationContext(H, v)
      /\ scopeOf(r.h, v) = scopeOf(H, v) /\ token(r.h, v) = token(H, v)
      /\ isMutable(r.h, v)
      /\ ~isRelatedContext(r.h, getMutationContext(r.h, v), argContext(H, x))
      /\ ~areContextsRelated(r.h, v, r.ret)

\* two mutable owners of two batches, and a later structure with the fields
\* of the second that is a mutable subordinate member of the first batch
C14_Witness ==
  \E owner \in Objs, other \in Objs, subordinate \in Objs :
    /\ subordinate > MaxInit /\ other < subordinate
    /\ isMutable(H, owner) /\ isContextOwner(H, owner)
    /\ isMutable(H, other) /\ isContextOwner(H, other)
    /\ ~areContextsRelated(H, owner, other)
    /\ objs[subordinate].component = objs[other].component
    /\ isMutable(H, subordinate)
    /\ isSubordinateContext(H, getMutationContext(H, subordinate))
    /\ areContextsRelated(H, owner, subordinate)

\* ---- C15 -----------------------------------------------------------------
\* C15: for every mutable parent p holding a child, modifyProperty(p, k)
\* returns the child and changes nothing when the child's context is on p's
\* flag cell; otherwise it returns a new instance, distinct from the child,
\* with the child's fields and a subordinate context on p's flag cell,
\* p[k] is that instance after the call, and the child, like everything
\* else but p[k], is as it was.
C15_ModifyPropertyAlignsChild ==
  \A p \in Objs : (objs[p].component # NoVal /\ isMutable(H, p)) =>
    LET child == objs[p].component
        r == modifyProperty(H, p) IN
    /\ ~r.threw
    /\ IF isRelatedContext(H, getMutationContext(H, child), getMutationContext(H, p))
         THEN r.ret = child /\ r.h = H
         ELSE /\ r.ret \notin Objs /\ r.ret # child /\ r.ret = Len(r.h.objs)
              /\ isSubordinateContext(r.h, getMutationContext(r.h, r.ret))
              /\ areContextsRelated(r.h, r.ret, p)
              /\ r.h.objs[r.ret].component = objs[child].component
              /\ r.h.objs[p] = [objs[p] EXCEPT !.component = r.ret]
              /\ \A o \in Objs \ {p} : r.h.objs[o] = objs[o]
              /\ SameCtxs(H, r.h) /\ r.h.tokens = tokens
              /\ isMutable(r.h, child) <=> isMutable(H, child)

\* a Widget that owns an open batch holds a later Component that is a
\* subordinate member of that batch, and the older Component it was cloned
\* from is still immutable and in no batch of the Widget
C15_Witness ==
  \E p \in Objs, o \in Objs :
    /\ isMutable(H, p) /\ isContextOwner(H, p)
    /\ objs[p].component > MaxInit /\ o < objs[p].component
    /\ isSubordinateContext(H, getMutationContext(H, objs[p].component))
    /\ areContextsRelated(H, p, objs[p].component)
    /\ objs[o].component = NoVal /\ o # p
    /\ isImmutable(H, o) /\ ~areContextsRelated(H, o, p)
    /\ \A q \in Objs : objs[q].component # o

\* ---- C16 -----------------------------------------------------------------
\* C16: for every immutable parent p holding a child, modifyProperty(p, k)
\* throws, and the heap after the call is the heap before it: p[k] is not
\* written and no structure is allocated.
C16_ModifyPropertyOfFrozenThrows ==
  \A p \in Objs : (objs[p].component # NoVal /\ isImmutable(H, p)) =>
    LET r == modifyProperty(H, p) IN
    /\ r.threw /\ r.ret = NoVal
    /\ r.h = H
    /\ Len(r.h.objs) = Len(objs) /\ r.h.objs[p].component = objs[p].component

\* a Widget whose batch has been committed holds a Component on another
\* flag cell: a child that a mutable parent would have had cloned
C16_Witness ==
  \E p \in Objs :
    /\ objs[p].component # NoVal
    /\ isContextOwner(H, p) /\ isImmutable(H, p)
    /\ ~areContextsRelated(H, p, objs[p].component)

\* ---- C17 -----------------------------------------------------------------
\* The heaps reached from those of S by at most n calls, each one of
\* modify(child), commit(child), modify(parent) or the commit(parent) that
\* ends a pair begun by an earlier modify(parent) of the run (d counts the
\* pairs that are begun and not ended), as long as the parent stays mutable.
RECURSIVE Interleavings(_, _, _, _)
Interleavings(S, parent, child, n) ==
  IF n = 0 THEN S
  ELSE LET after ==
             UNION {{[h |-> modify(s.h, child).h, d |-> s.d],
                     [h |-> commit(s.h, child).h, d |-> s.d],
                     [h |-> modify(s.h, parent).h, d |-> s.d + 1]}
                    \cup (IF s.d > 0
                            THEN {[h |-> commit(s.h, parent).h, d |-> s.d - 1]}
                            ELSE {}) : s \in S}
           open == {s \in after : isMutable(s.h, parent)}
       IN Interleavings(S \cup open, parent, child, n - 1)

\* C17: let child be what a first modifyProperty(p, k) returns for a mutable
\* parent p.  After every run of modify/commit calls on child and nested
\* modify/commit pairs on p that leaves p's batch open, p[k] is still child,
\* and modifyProperty(p, k) returns child again, allocates nothing and
\* writes nothing.
C17_NoReclone ==
  \A p \in Objs : (objs[p].component # NoVal /\ isMutable(H, p)) =>
    LET r == modifyProperty(H, p) IN
    \A s \in Interleavings({[h |-> r.h, d |-> 0]}, p, r.ret, MaxNest) :
      LET r2 == modifyProperty(s.h, p) IN
      /\ s.h.objs = r.h.objs
      /\ ~r2.threw /\ r2.ret = r.ret
      /\ r2.h = s.h

\* a Widget inside a nested modify of the batch it owns holds a later
\* Component that is a subordinate member of that batch
C17_Witness ==
  \E p \in Objs :
    /\ isMutable(H, p) /\ isContextOwner(H, p) /\ scopeOf(H, p) >= 1
    /\ objs[p].component > MaxInit
    /\ isSubordinateContext(H, getMutationContext(H, objs[p].component))
    /\ areContextsRelated(H, p, objs[p].component)

C21_FrozenNeverMutated ==
  /\ ctxs[FROZEN] = H0.ctxs[FROZEN]
  /\ tokens[ctxs[FROZEN].token] = FALSE
  /\ immutable(H) = Res(H, FROZEN)
  /\ LET r == commitContext(H, FROZEN) IN r.h = H
  /\ \A v \in Objs : getMutationContext(H, v) = FROZEN =>
       LET m == modify(H, v)
           c == commit(H, v) IN
       /\ m.h.ctxs[FROZEN] = ctxs[FROZEN] /\ ~isMutableContext(m.h, FROZEN)
       /\ getMutationContext(m.h, v) = FROZEN
       /\ c.h = H

\* a structure still holds the frozen singleton after it has been modified
\* (a later clone of it is mutable in a batch of its own) and another batch
\* has been committed
C21_Witness ==
  \E v \in Objs, y \in Objs, z \in Objs :
    /\ getMutationContext(H, v) = FROZEN
    /\ v < y /\ y > MaxInit /\ objs[y].component = objs[v].component
    /\ isMutable(H, y) /\ isContextOwner(H, y)
    /\ isContextOwner(H, z) /\ isImmutable(H, z)

\* ---- C22 -----------------------------------------------------------------
\* C22 as claimed: the frozen singleton has flag false and is an owner
\* context: isPrimaryContext holds for it and isContextOwner holds for
\* every structure that holds it.
C22_Original ==
  /\ ~isMutableContext(H, FROZEN)
  /\ isPrimaryContext(H, FROZEN)
  /\ \A v \in Objs : getMutationContext(H, v) = FROZEN => isContextOwner(H, v)

\* C22 as amended: the frozen singleton has flag false and scope -1, so it
\* is classified as a subordinate context and not as an owner context:
\* isPrimaryContext is false for it and isContextOwner is false for every
\* structure that holds it, as every immutable structure does that was
\* constructed or cloned without a context.
C22_FrozenIsSubordinate ==
  /\ ~isMutableContext(H, FROZEN)
  /\ isSubordinateContext(H, FROZEN) /\ ~isPrimaryContext(H, FROZEN)
  /\ selectContext(H, Undef).ret = FROZEN /\ immutable(H).ret = FROZEN
  /\ \A v \in Objs : getMutationContext(H, v) = FROZEN =>
       ~isContextOwner(H, v) /\ isImmutable(H, v)

\* a structure made by a call holds the frozen singleton, next to a
\* structure that owns a context
C22_Witness ==
  \E v \in Objs, y \in Objs :
    /\ v > MaxInit /\ getMutationContext(H, v) = FROZEN
    /\ isContextOwner(H, y)

\* ---- C23 -----------------------------------------------------------------
\* C23: for every context c, asSubordinateContext(c) returns c itself and
\* allocates nothing when c is subordinate, and a new context on c's flag
\* cell when c is an owner; the result is subordinate, related to c and
\* mutable exactly if c is, now and after the flag cell is closed through
\* any owner context; nothing that existed is written; and
\* asSubordinateContext of the result is the result.
C23_AsSubordinateContext ==
  \A c \in Ctxs :
    LET r == asSubordinateContext(H, c)
        r2 == asSubordinateContext(r.h, r.ret) IN
    /\ ~r.threw
    /\ isSubordinateContext(H, c) => r.ret = c /\ r.h = H
    /\ isPrimaryContext(H, c) =>
         r.ret \notin Ctxs /\ r.ret = Len(r.h.ctxs) /\ Len(r.h.ctxs) = Len(ctxs) + 1
    /\ isSubordinateContext(r.h, r.ret)
    /\ isRelatedContext(r.h, r.ret, c)
    /\ r.h.ctxs[r.ret].token = ctxs[c].token
    /\ isMutableContext(r.h, r.ret) <=> isMutableContext(H, c)
    /\ \A o \in 1..Len(r.h.ctxs) :
         LET f == commitContext(r.h, o).h IN
         isMutableContext(f, r.ret) <=> isMutableContext(f, c)
    /\ SameCtxs(H, r.h) /\ r.h.tokens = tokens /\ r.h.objs = objs
    /\ r2.ret = r.ret /\ r2.h = r.h

\* an owner context and a later subordinate context on its flag cell, held
\* by a structure that a call made, after the flag cell has been closed
C23_Witness ==
  \E c \in Ctxs, s \in Ctxs, v \in Objs :
    /\ c < s /\ isPrimaryContext(H, c) /\ isSubordinateContext(H, s)
    /\ isRelatedContext(H, s, c)
    /\ v > MaxInit /\ getMutationContext(H, v) = s
    /\ ~isMutableContext(H, c) /\ ~isMutableContext(H, s)

\* ---- C24 -----------------------------------------------------------------
\* C24: for every preference, selectContext gives: for none and for false
\* the frozen singleton, nothing written; for true a new context at scope
\* 0 on a new flag cell that is true, unrelated to every context that
\* existed, nothing that existed written; for a context that same
\* instance, nothing written; for a structure a subordinate context on the
\* flag cell of the structure's context (that context itself if it is
\* subordinate).
C24_SelectContext ==
  \A m \in Preferences :
    LET r == selectContext(H, m) IN
    /\ ~r.threw
    /\ SameCtxs(H, r.h) /\ SameTokens(H, r.h) /\ r.h.objs = objs
    /\ m = Undef => r = Res(H, FROZEN)
    /\ m = Bool(FALSE) => r = Res(H, FROZEN)
    /\ m = Bool(TRUE) =>
         /\ r.ret \notin Ctxs /\ r.ret = Len(r.h.ctxs)
         /\ r.h.ctxs[r.ret].token \notin Tokens
         /\ isMutableContext(r.h, r.ret)
         /\ isPrimaryContext(r.h, r.ret) /\ r.h.ctxs[r.ret].scope = 0
         /\ \A c \in Ctxs : ~isRelatedContext(r.h, r.ret, c)
    /\ m.kind = "context" => r = Res(H, m.val)
    /\ m.kind = "structure" =>
         /\ isSubordinateContext(r.h, r.ret)
         /\ isRelatedContext(r.h, r.ret, getMutationContext(H, m.val))
         /\ isSubordinateContext(H, getMutationContext(H, m.val)) =>
              r = Res(H, getMutationContext(H, m.val))

\* a Widget that owns an open batch holds a Component, made by a call, with
\* a subordinate context that was derived from the Widget's context after
\* the Widget was built
C24_Witness ==
  \E p \in Objs :
    /\ objs[p].component > MaxInit
    /\ isContextOwner(H, p) /\ isMutable(H, p)
    /\ getMutationContext(H, objs[p].component) > getMutationContext(H, p)
    /\ isSubordinateContext(H, getMutationContext(H, objs[p].component))
    /\ areContextsRelated(H, p, objs[p].component)

\* ---- C25 -----------------------------------------------------------------
\* C25: for all structures a and b of every reachable state,
\* areContextsRelated(a, b) is true exactly if a and b are on the same flag
\* cell and that flag cell is still true (the same active mutation
\* context); in particular it is false for two structures that hold the
\* frozen singleton and for two members of a committed batch.
C25_RelatedOnlyWhileActive ==
  \A a \in Objs, b \in Objs :
    areContextsRelated(H, a, b) <=>
      (token(H, a) = token(H, b) /\ isMutable(H, a) /\ isMutable(H, b))

\* ---- the asMutable/doneMutating API (src/persistent.ts) -------------------
\* Under SpecPersistent the heap holds the objects of persistent.ts: a
\* MutationContext is [token, owner] and a structure is a Person
\* ['[@mctx]', name] of the tests.  isMutable, isImmutable and token of
\* persistent.ts read what their namesakes above read.
Names == {"Bob", "Sam"}

\* new MutationContext(token, owner) of persistent.ts, on the heap
newOwnedContext(h, tok, owner) ==
  Res([h EXCEPT !.ctxs = Append(@, [token |-> tok, owner |-> owner])], Len(h.ctxs) + 1)

\* module initialization: FROZEN = new MutationContext([false], false)
P0 == [tokens |-> <<FALSE>>, ctxs |-> <<[token |-> 1, owner |-> FALSE]>>, objs |-> <<>>]

frozenContext(h) == Res(h, FROZEN)

mutableContext(h) ==
  newOwnedContext([h EXCEPT !.tokens = Append(@, TRUE)], Len(h.tokens) + 1, TRUE)

mctx(h, value) == h.objs[value].mctx

isOwner(h, mc) == h.ctxs[mc].owner

freeze(h, mc) == [h EXCEPT !.tokens[h.ctxs[mc].token] = FALSE]

isSameMutationContext(h, a, b) == token(h, a) = token(h, b)

shadowMutationContext(h, value) ==
  LET mc == mctx(h, value) IN
  IF h.ctxs[mc].owner THEN newOwnedContext(h, h.ctxs[mc].token, FALSE) ELSE Res(h, mc)

\* clone(mctx, value): value['[@clone]'](mctx) = new Person(this.name, mctx)
clonePerson(h, mc, value) ==
  Res([h EXCEPT !.objs = Append(@, [mctx |-> mc, name |-> h.objs[value].name])],
      Len(h.objs) + 1)

\* asMutable(value, join); join = NoVal is the call without a second argument
asMutable(h, value, join) ==
  IF join # NoVal
    THEN IF isSameMutationContext(h, value, join) THEN Res(h, value)
         ELSE LET s == shadowMutationContext(h, join) IN clonePerson(s.h, s.ret, value)
    ELSE IF isMutable(h, value) THEN Res(h, value)
         ELSE LET m == mutableContext(h) IN clonePerson(m.h, m.ret, value)

doneMutating(h, value) ==
  LET mc == mctx(h, value) IN
  IF isOwner(h, mc) THEN Res(freeze(h, mc), value) ELSE Res(h, value)

\* new Person(name) and new Person(name, mutableContext())
newPerson(h, name, how) ==
  LET s == IF how = "mutable" THEN mutableContext(h) ELSE frozenContext(h)
  IN [s.h EXCEPT !.objs = Append(@, [mctx |-> s.ret, name |-> name])]

\* the heaps that at most n constructions of a Person make
RECURSIVE BuiltPersons(_)
BuiltPersons(n) ==
  IF n = 0 THEN {P0}
  ELSE LET P == BuiltPersons(n - 1) IN
       P \cup {newPerson(h, name, how) :
                 h \in P, name \in Names, how \in {"frozen", "mutable"}}

InitPersistent ==
  \E h \in BuiltPersons(MaxInit) :
    /\ tokens = h.tokens
    /\ ctxs = h.ctxs
    /\ objs = h.objs

SetPersistentHeap(h) ==
  /\ Len(h.objs) <= MaxObj
  /\ tokens' = h.tokens
  /\ ctxs' = h.ctxs
  /\ objs' = h.objs

AsMutable(v) == SetPersistentHeap(asMutable(H, v, NoVal).h)

AsMutableJoin(v, join) == SetPersistentHeap(asMutable(H, v, join).h)

DoneMutating(v) == SetPersistentHeap(doneMutating(H, v).h)

NextPersistent ==
  \/ \E v \in Objs : AsMutable(v)
  \/ \E v \in Objs, join \in Objs : AsMutableJoin(v, join)
  \/ \E v \in Objs : DoneMutating(v)

SpecPersistent == InitPersistent /\ [][NextPersistent]_vars

\* ---- C26 -----------------------------------------------------------------
\* C26: for every value and every join structure whose context is frozen
\* (never made mutable, or passed to doneMutating), asMutable(value, join)
\* throws.
C26_AsMutableJoinFrozenThrows ==
  \A v \in Objs, join \in Objs :
    isImmutable(H, join) => asMutable(H, v, join).threw

\* ---- C27 -----------------------------------------------------------------
\* C27: for all structures a and b, isSameMutationContext(a, b) is true
\* exactly if a and b are on the same flag cell and that flag cell is still
\* true; it is false if either is immutable.
C27_SameOnlyWhileActive ==
  \A a \in Objs, b \in Objs :
    isSameMutationContext(H, a, b) <=>
      (token(H, a) = token(H, b) /\ isMutable(H, a) /\ isMutable(H, b))

\* ---- isEqual (src/equatable.ts) -------------------------------------------
\* Under SpecEquatable objs holds Equatable objects: the classes Person and
\* Animal of tests/equatable.ts, [constructor, name], and the same classes
\* without the Symbol.iterator method (iterable = FALSE).
Constructors == {"Person", "Animal"}

\* a['[@equals]'](b) of Person and Animal: !!other && this.name === other.name
equals(h, a, b) == h.objs[a].name = h.objs[b].name

\* Symbol.iterator in value
isIterable(h, a) == h.objs[a].iterable

\* the values that a[Symbol.iterator]() yields: [this.name]
iterate(h, a) == <<h.objs[a].name>>

\* the do/while loop of isEqual from the i-th next() on.  The values that
\* are yielded are strings, for which isObject is false, so two values pass
\* only if va === vb.
RECURSIVE tandem(_, _, _)
tandem(sa, sb, i) ==
  LET cadone == i > Len(sa)
      cbdone == i > Len(sb) IN
  IF cadone # cbdone THEN FALSE
  ELSE IF cadone THEN TRUE
  ELSE IF sa[i] # sb[i] THEN FALSE
  ELSE tandem(sa, sb, i + 1)

isEqual(h, a, b) ==
  IF a = b \/ (h.objs[a].constructor = h.objs[b].constructor /\ equals(h, a, b))
    THEN TRUE
  ELSE IF isIterable(h, a) /\ isIterable(h, b)
    THEN tandem(iterate(h, a), iterate(h, b), 1)
  ELSE TRUE

InitEquatable == tokens = <<>> /\ ctxs = <<>> /\ objs = <<>>

\* new Person(name) / new Animal(name)
NewEquatable(constructor, name, iterable) ==
  /\ Len(objs) < MaxObj
  /\ objs' = Append(objs, [constructor |-> constructor, name |-> name,
                           iterable |-> iterable])
  /\ UNCHANGED <<tokens, ctxs>>

NextEquatable ==
  \E constructor \in Constructors, name \in Names, iterable \in BOOLEAN :
    NewEquatable(constructor, name, iterable)

SpecEquatable == InitEquatable /\ [][NextEquatable]_vars

\* ---- C28 -----------------------------------------------------------------
\* C28: for all distinct Equatable objects a and b, iterable or not, that
\* are not equivalent according to their '[@equals]' methods, isEqual(a, b)
\* is false.
C28_IsEqualFalseIfNotEquivalent ==
  \A a \in Objs, b \in Objs :
    (a # b /\ ~equals(H, a, b) /\ ~equals(H, b, a)) => ~isEqual(H, a, b)

\* ---- C29 -----------------------------------------------------------------
\* C29: for every mutable owner context c, at whatever scope,
\* commitContext(c) leaves c, every context on c's flag cell and every
\* structure that holds one of them immutable, and writes nothing but that
\* flag; for every subordinate context c it changes nothing.
C29_CommitContext ==
  \A c \in Ctxs :
    LET r == commitContext(H, c) IN
    /\ ~r.threw
    /\ (isPrimaryContext(H, c) /\ isMutableContext(H, c)) =>
         /\ ~isMutableContext(r.h, c)
         /\ \A s \in Ctxs : isRelatedContext(H, s, c) => ~isMutableContext(r.h, s)
         /\ \A v \in Objs :
              isRelatedContext(H, getMutationContext(H, v), c) => isImmutable(r.h, v)
         /\ r.h.ctxs = ctxs /\ r.h.objs = objs
         /\ r.h.tokens = [tokens EXCEPT ![ctxs[c].token] = FALSE]
    /\ isSubordinateContext(H, c) => r.h = H

\* an owner context inside a nested modify and a subordinate context on its
\* flag cell, each held by a structure, after the flag cell has been closed
C29_Witness ==
  \E a \in Objs, b \in Objs :
    /\ isContextOwner(H, a) /\ scopeOf(H, a) >= 1
    /\ isSubordinateContext(H, getMutationContext(H, b))
    /\ areContextsRelated(H, a, b)
    /\ isImmutable(H, a) /\ isImmutable(H, b)

\* ---- C30 -----------------------------------------------------------------
\* C30: for every structure v and a mutate function that issues k balanced
\* modify/commit pairs: if v is mutable, what mutate receives is v and
\* update returns v, mutable, in the heap it started from (scope
\* unchanged); if v is immutable, mutate receives a new mutable instance,
\* update returns that instance, immutable, and nothing that existed is
\* written.
C30_Update ==
  \A v \in Objs, k \in 0..MaxPairs :
    LET m == modify(H, v)
        r == update(H, k, v) IN
    /\ ~r.threw
    /\ isMutable(H, v) =>
         /\ m.ret = v
         /\ r.ret = v /\ isMutable(r.h, v)
         /\ scopeOf(r.h, v) = scopeOf(H, v)
         /\ r.h = H
    /\ isImmutable(H, v) =>
         /\ m.ret \notin Objs /\ isMutable(m.h, m.ret)
         /\ r.ret = m.ret /\ isImmutable(r.h, r.ret)
         /\ r.h.objs[r.ret].component = objs[v].component
         /\ isImmutable(r.h, v)
         /\ SameObjs(H, r.h) /\ SameCtxs(H, r.h) /\ SameTokens(H, r.h)

\* a structure that holds the frozen singleton and a later structure with
\* its fields that alone is on a flag cell of its own, an owner at scope 0
\* and immutable: the frozen copy that update returns
C30_Witness ==
  \E v \in Objs, y \in Objs :
    /\ v < y /\ y > MaxInit
    /\ getMutationContext(H, v) = FROZEN
    /\ objs[y].component = objs[v].component
    /\ isContextOwner(H, y) /\ scopeOf(H, y) = 0 /\ isImmutable(H, y)
    /\ \A o \in Objs \ {y} : ~areContextsRelated(H, o, y)

\* ---- C31 -----------------------------------------------------------------
\* C31: for every mutable structure m and every value v, unrelated, a
\* subordinate member of m's batch, its owner or a co-owner,
\* withMutability(m, v) returns a mutable value on m's flag cell whose
\* context is subordinate.
C31_WithMutabilityOfStructure ==
  \A m \in Objs, v \in Objs : isMutable(H, m) =>
    LET r == withMutability(H, Obj(m), v) IN
    /\ ~r.threw /\ isMutable(r.h, r.ret)
    /\ areContextsRelated(r.h, r.ret, m)
    /\ isSubordinateContext(r.h, getMutationContext(r.h, r.ret))

\* ---- C32 -----------------------------------------------------------------
\* every context of h is of the same kind in h2
KindsKept(h, h2) ==
  \A c \in 1..Len(h.ctxs) :
    /\ isPrimaryContext(h, c) <=> isPrimaryContext(h2, c)
    /\ isSubordinateContext(h, c) <=> isSubordinateContext(h2, c)

\* C32: in every reachable state every context is an owner context (scope
\* >= 0) or a subordinate context (scope -1), and from every reachable
\* state a modify call and any run of commit calls on any structure, frozen
\* or not, keeps the kind of every context; a commit on a frozen owner at
\* scope 0 changes nothing.
C32_KindNeverChanges ==
  /\ \A c \in Ctxs : isPrimaryContext(H, c) \/ isSubordinateContext(H, c)
  /\ \A v \in Objs :
       /\ KindsKept(H, modify(H, v).h)
       /\ \A n \in 1..MaxNest : KindsKept(H, Times(H, v, "commit", n).h)
       /\ (isContextOwner(H, v) /\ isImmutable(H, v) /\ scopeOf(H, v) = 0) =>
            commit(H, v).h = H

\* an owner that its commit has frozen at scope 0, next to an owner inside
\* a nested modify with a mutable subordinate member of its batch
C32_Witness ==
  \E a \in Objs, z \in Objs, b \in Objs :
    /\ isContextOwner(H, a) /\ isImmutable(H, a) /\ scopeOf(H, a) = 0
    /\ isContextOwner(H, z) /\ isMutable(H, z) /\ scopeOf(H, z) >= 1
    /\ isSubordinateContext(H, getMutationContext(H, b))
    /\ areContextsRelated(H, z, b)

\* ---- C33 -----------------------------------------------------------------
\* C33: in every reachable state two owner contexts on one flag cell are
\* one instance, so every flag cell has at most one owner context, and
\* every other context on it is subordinate.
C33_OneOwnerPerCell ==
  /\ \A c \in Ctxs, d \in Ctxs :
       (isPrimaryContext(H, c) /\ isPrimaryContext(H, d) /\ isRelatedContext(H, c, d))
         => c = d
  /\ \A c \in Ctxs, d \in Ctxs :
       (isPrimaryContext(H, c) /\ isRelatedContext(H, c, d) /\ c # d)
         => isSubordinateContext(H, d)

\* a flag cell with its owner context and two subordinate context
\* instances, the later one held by a structure that a call made
C33_Witness ==
  \E c \in Ctxs, s1 \in Ctxs, s2 \in Ctxs, v \in Objs :
    /\ isPrimaryContext(H, c)
    /\ s1 < s2 /\ isSubordinateContext(H, s1) /\ isSubordinateContext(H, s2)
    /\ isRelatedContext(H, s1, c) /\ isRelatedContext(H, s2, c)
    /\ v > MaxInit /\ getMutationContext(H, v) = s2

\* ---- C34 -----------------------------------------------------------------
\* C34: when modifyAsEqual(x, v), for a mutable owner context named by x,
\* returns a clone, the clone holds that very context instance.  Then, for
\* every structure o that held the instance before: modify through the
\* clone and modify through o both add one to the one scope; a commit
\* through either takes it back; at a scope above 0 a commit through the
\* clone takes one off and leaves the batch mutable; and at scope 0 a commit
\* through the clone leaves the clone, o and every structure on the flag
\* cell immutable.
C34_EqualsShareScope ==
  \A x \in Contexts, v \in Objs :
    LET mcParent == argContext(H, x)
        r == modifyAsEqual(H, x, v) IN
    (/\ isMutableContext(H, mcParent) /\ isPrimaryContext(H, mcParent)
     /\ r.ret # v) =>
      LET c == r.ret
          h1 == r.h
          s == ctxs[mcParent].scope
          m == modify(h1, c)
          f == commit(h1, c) IN
      /\ c \notin Objs /\ getMutationContext(h1, c) = mcParent
      /\ h1.ctxs = ctxs /\ h1.tokens = tokens
      /\ m.ret = c /\ m.h = incScope(h1, mcParent)
      /\ commit(m.h, c).h = h1
      /\ f.ret = c
      /\ s > 0 => f.h = decScope(h1, mcParent) /\ isMutable(f.h, c)
      /\ s = 0 => isImmutable(f.h, c)
      /\ \A o \in Objs : getMutationContext(H, o) = mcParent =>
           /\ modify(h1, o).h = m.h
           /\ scopeOf(m.h, o) = s + 1 /\ scopeOf(m.h, c) = s + 1
           /\ commit(m.h, o).h = h1
           /\ s > 0 => commit(h1, o).h = f.h /\ isMutable(f.h, o)
           /\ s = 0 => isImmutable(f.h, o)
      /\ s = 0 => \A o \in Objs :
           isRelatedContext(H, getMutationContext(H, o), mcParent) => isImmutable(f.h, o)

\* two structures, the later one made by a call, hold one owner context
\* instance at scope 0 and are immutable: a commit through one of them has
\* frozen both
C34_Witness ==
  \E a \in Objs, c \in Objs :
    /\ a < c /\ c > MaxInit
    /\ getMutationContext(H, c) = getMutationContext(H, a)
    /\ isContextOwner(H, a) /\ scopeOf(H, a) = 0
    /\ isImmutable(H, a) /\ isImmutable(H, c)

\* ---- C35 -----------------------------------------------------------------
\* every flag cell of h but t, and every context and structure on such a
\* cell, is in h2 as it was in h
OthersKept(h, h2, t) ==
  \/ h2 = h
  \/ /\ \A u \in 1..Len(h.tokens) : u # t => h2.tokens[u] = h.tokens[u]
     /\ \A c \in 1..Len(h.ctxs) : h.ctxs[c].token # t => h2.ctxs[c] = h.ctxs[c]
     /\ \A v \in 1..Len(h.objs) : token(h, v) # t =>
          /\ h2.objs[v] = h.objs[v]
          /\ isMutable(h2, v) <=> isMutable(h, v)
          /\ scopeOf(h2, v) = scopeOf(h, v)

\* C35: a modify, commit, commitContext, join or modifyProperty leaves the
\* flag of every flag cell other than the one it is applied to, and the
\* scope of every context on another cell, as they were; so no structure of
\* another batch changes between mutable and immutable.
C35_BatchesIsolated ==
  /\ \A v \in Objs :
       /\ OthersKept(H, modify(H, v).h, token(H, v))
       /\ OthersKept(H, commit(H, v).h, token(H, v))
       /\ objs[v].component # NoVal => OthersKept(H, modifyProperty(H, v).h, token(H, v))
  /\ \A c \in Ctxs : OthersKept(H, commitContext(H, c).h, ctxs[c].token)
  /\ \A x \in Contexts, v \in Objs :
       LET t == ctxs[argContext(H, x)].token IN
       /\ OthersKept(H, modifyAsSubordinate(H, x, v).h, t)
       /\ OthersKept(H, modifyAsEqual(H, x, v).h, t)

\* an owner of one batch has committed and is immutable, while an owner on
\* another flag cell is mutable
C35_Witness ==
  \E a \in Objs, b \in Objs :
    /\ token(H, a) # token(H, b)
    /\ isContextOwner(H, a) /\ isContextOwner(H, b)
    /\ isImmutable(H, a) /\ scopeOf(H, a) = 0
    /\ isMutable(H, b)

\* ---- unwrap (unwrappable.ts) ----------------------------------------------
\* In this specification objs holds the sources handed to unwrap, a source
\* being [unwrappable, nestable, throws, children]; ctxs holds the targets
\* that '[@unwrap:init]' has allocated, a target being [of, items]; tokens
\* holds the entries [source, target] of the module's WeakMap.
MaxSources == 2    \* sources constructed in one behaviour
MaxChildren == 2   \* children of one source
MaxTargets == 4    \* targets allocated in one behaviour
MaxStack == 6      \* nested unwrap calls the call stack holds

\* const CIRCULARS = new WeakMap<any, any>()
CIRCULARS == tokens

\* the values that unwrap returns: a source as it is, a target, or the
\* native value that the '[@unwrap]'() of an Unwrappable makes
Source(v) == [kind |-> "source", val |-> v]
Target(t) == [kind |-> "target", val |-> t]
Native(v) == [kind |-> "native", val |-> v]

\* '[@unwrap]' in value
isUnwrappable(h, value) == h.objs[value].unwrappable

\* '[@unwrap:init]' in value
isNestableUnwrappable(h, value) == h.objs[value].nestable

\* the result of a call: the heap after it, the value returned, whether it
\* threw, whether it threw for want of call stack, and the values that the
\* calls below it have taken out of CIRCULARS
Unwrapped(h, ret, threw, overflow, hits) ==
  [h |-> h, ret |-> ret, threw |-> threw, overflow |-> overflow, hits |-> hits]

RECURSIVE unwrap(_, _, _)
RECURSIVE unwrapNested(_, _, _, _, _)

\* source['[@unwrap]'](target) as a client implements it for a
\* NestableUnwrappable that serializes itself and its children, from the
\* k-th child on: target.push(unwrap(child)) for each child, then return
\* target; an exception of a child's unwrap goes on to the caller
unwrapNested(h, source, target, k, stack) ==
  IF k > Len(h.objs[source].children) THEN Unwrapped(h, Target(target), FALSE, FALSE, {})
  ELSE LET r == unwrap(h, h.objs[source].children[k], stack) IN
       IF r.threw THEN r
       ELSE LET n == unwrapNested([r.h EXCEPT !.ctxs[target].items = Append(@, r.ret)],
                                  source, target, k + 1, stack) IN
            [n EXCEPT !.hits = @ \cup r.hits]

\* unwrap(source), called with the sources of the unwrap calls in progress
\* on the call stack; a call that the stack has no room for throws
unwrap(h, source, stack) ==
  IF Len(stack) >= MaxStack THEN Unwrapped(h, NoVal, TRUE, TRUE, {})
  ELSE IF ~isUnwrappable(h, source) THEN Unwrapped(h, Source(source), FALSE, FALSE, {})
  ELSE IF \E e \in h.tokens : e.source = source
    THEN LET e == CHOOSE e \in h.tokens : e.source = source IN
         Unwrapped(h, Target(e.target), FALSE, FALSE, {e})
  ELSE IF isNestableUnwrappable(h, source)
    THEN LET target == Len(h.ctxs) + 1
             h1 == [h EXCEPT !.ctxs = Append(@, [of |-> source, items |-> <<>>])]
             h2 == [h1 EXCEPT !.tokens = {e \in @ : e.source # source}
                                          \cup {[source |-> source, target |-> target]}]
             r == IF h.objs[source].throws THEN Unwrapped(h2, NoVal, TRUE, FALSE, {})
                  ELSE unwrapNested(h2, source, target, 1, Append(stack, source)) IN
         IF r.threw THEN r
         ELSE [r EXCEPT !.h.tokens = {e \in @ : e.source # source}]
    ELSE IF h.objs[source].throws THEN Unwrapped(h, NoVal, TRUE, FALSE, {})
         ELSE Unwrapped(h, Native(source), FALSE, FALSE, {})

\* module initialization: no source, no target, an empty WeakMap
InitUnwrap == tokens = {} /\ ctxs = <<>> /\ objs = <<>>

\* the client constructs an object: a plain one, an Unwrappable or a
\* NestableUnwrappable, whose '[@unwrap]' returns or throws
NewSource(unwrappable, nestable, throws) ==
  /\ Len(objs) < MaxSources
  /\ nestable => unwrappable
  /\ throws => unwrappable
  /\ objs' = Append(objs, [unwrappable |-> unwrappable, nestable |-> nestable,
                           throws |-> throws, children |-> <<>>])
  /\ UNCHANGED <<tokens, ctxs>>

\* the client gives a NestableUnwrappable one more child
AddChild(parent, child) ==
  /\ isNestableUnwrappable(H, parent)
  /\ Len(objs[parent].children) < MaxChildren
  /\ objs' = [objs EXCEPT ![parent].children = Append(@, child)]
  /\ UNCHANGED <<tokens, ctxs>>

\* the client calls unwrap(source), no unwrap being in progress
Unwrap(source) ==
  LET r == unwrap(H, source, <<>>) IN
  /\ Len(r.h.ctxs) <= MaxTargets
  /\ tokens' = r.h.tokens
  /\ ctxs' = r.h.ctxs
  /\ UNCHANGED objs

NextUnwrap ==
  \/ \E unwrappable \in BOOLEAN, nestable \in BOOLEAN, throws \in BOOLEAN :
       NewSource(unwrappable, nestable, throws)
  \/ \E parent \in Objs, child \in Objs : AddChild(parent, child)
  \/ \E source \in Objs : Unwrap(source)

SpecUnwrap == InitUnwrap /\ [][NextUnwrap]_vars

\* ---- C36 -----------------------------------------------------------------
\* C36: unwrap(source), called while no unwrap is in progress, does not use
\* up the call stack, whatever circular references the sources hold; every
\* value it takes out of CIRCULARS is the target that this very call has
\* allocated for that source; and when it returns normally CIRCULARS holds
\* no entry.
C36_UnwrapOfCircular ==
  \A source \in Objs :
    LET r == unwrap(H, source, <<>>) IN
    /\ ~r.overflow
    /\ \A e \in r.hits : e.target > Len(ctxs) /\ r.h.ctxs[e.target].of = e.source
    /\ ~r.threw => r.h.tokens = {}

====
